---- MODULE Spec2Model ----
(***************************************************************************)
(* chatbot_with_memory: the two-tier memory coordinator (ChatbotMemory,    *)
(* src/memory.py) and the response orchestrator (EnhancedChatbot,          *)
(* src/chatbot.py).                                                        *)
(*                                                                         *)
(* A Python str is a sequence of tokens: a literal piece of a format       *)
(* string, a newline, or an atom of input text.  Concatenation is \o, the  *)
(* empty string is << >>.  A newline is always the token NL, so two        *)
(* strings are equal exactly when their token sequences are.               *)
(***************************************************************************)
EXTENDS Integers, Sequences, FiniteSets, TLC

(* ------------------------------ bounds --------------------------------- *)
\* add_to_memory invocations in one behaviour (all sessions together)
MaxCalls == 2
\* largest configured fan-out
MaxK == 2

\* the chatbot sessions (each an EnhancedChatbot with its own ChatbotMemory);
\* app.py constructs one
AppSessions == {1}
\* the exchanges: a user input and the language model's output for it
Exchanges == { <<<<"Hello">>, <<"Hi there!">>>>, <<<<"Test">>, <<"Response">>>> }
Humans == { x[1] : x \in Exchanges }
\* configured values of ChatbotConfig.memory_k
MemoryKs == 0..MaxK

(* ------------------------------ strings -------------------------------- *)
NL == "\n"

Min(a, b) == IF a <= b THEN a ELSE b

\* sep.join(strs)
RECURSIVE Join(_, _)
Join(strs, sep) ==
    IF strs = << >> THEN << >>
    ELSE IF Len(strs) = 1 THEN strs[1]
    ELSE strs[1] \o sep \o Join(Tail(strs), sep)

\* sub in str
Contains(str, sub) ==
    \E i \in 0..(Len(str) - Len(sub)) : SubSeq(str, i + 1, i + Len(sub)) = sub

\* str.split("\n") of a non-empty string; no lines for the empty string
RECURSIVE SplitFrom(_, _, _)
SplitFrom(str, i, cur) ==
    IF i > Len(str) THEN <<cur>>
    ELSE IF str[i] = NL THEN <<cur>> \o SplitFrom(str, i + 1, << >>)
    ELSE SplitFrom(str, i + 1, Append(cur, str[i]))

Lines(str) == IF str = << >> THEN << >> ELSE SplitFrom(str, 1, << >>)

\* str.split("\n\n") of a non-empty string; no entries for the empty string
RECURSIVE SplitBlankFrom(_, _, _)
SplitBlankFrom(str, i, cur) ==
    IF i > Len(str) THEN <<cur>>
    ELSE IF i < Len(str) /\ str[i] = NL /\ str[i + 1] = NL
         THEN <<cur>> \o SplitBlankFrom(str, i + 2, << >>)
         ELSE SplitBlankFrom(str, i + 1, Append(cur, str[i]))

Entries(str) == IF str = << >> THEN << >> ELSE SplitBlankFrom(str, 1, << >>)

\* datetime.isoformat()
Isoformat(t) == "2025-01-01T00:00:0" \o ToString(t)

\* {} and dict.get(key, default)
EmptyDict == [key \in {} |-> ""]
DictGet(d, key, default) == IF key \in DOMAIN d THEN d[key] ELSE default

(* ------------------- the vector index (langchain Chroma) --------------- *)
Document(page_content, metadata) ==
    [page_content |-> page_content, metadata |-> metadata]

\* Chroma.add_texts(texts, metadatas=None, ids=None, **kwargs): one document
\* per text; a keyword the signature does not name lands in **kwargs and is
\* not stored.
Chroma_add_texts(store, call) ==
    LET texts == IF Len(call.args) >= 1 THEN call.args[1] ELSE call.kwargs.texts
        metadatas == IF Len(call.args) >= 2 THEN call.args[2]
                     ELSE IF "metadatas" \in DOMAIN call.kwargs
                          THEN call.kwargs.metadatas
                          ELSE << >>
    IN store \o [i \in 1..Len(texts) |->
                   Document(texts[i],
                            IF i <= Len(metadatas) THEN metadatas[i] ELSE EmptyDict)]

\* Chroma.similarity_search(query, k): the k nearest documents, nearest
\* first.  The embedding distance is opaque, so every ranking of the stored
\* documents is possible.  For k <= 0 a returning search yields nothing.
Chroma_similarity_search(store, k) ==
    IF k <= 0 THEN { << >> }
    ELSE LET n == Min(k, Len(store))
         IN { [i \in 1..n |-> store[r[i]]] :
                r \in { f \in [1..n -> 1..Len(store)] :
                          \A i, j \in 1..n : i # j => f[i] # f[j] } }

(* --------------- short-term memory (ConversationBufferMemory) ---------- *)
\* variant: the assistant's message is stored before the user's
save_context_ai_first(messages, human_input, ai_response) ==
    messages \o << [type |-> "ai", content |-> ai_response],
                   [type |-> "human", content |-> human_input] >>

\* save_context({"input": h}, {"output": a}): a human message then an ai one
save_context(messages, human_input, ai_response) ==
    messages \o << [type |-> "human", content |-> human_input],
                   [type |-> "ai", content |-> ai_response] >>

\* get_buffer_string: one "Human: ..." / "AI: ..." line per message
BufferLine(m) ==
    (IF m.type = "human" THEN <<"Human: ">> ELSE <<"AI: ">>) \o m.content

load_memory_variables(messages) ==
    [history |-> Join([i \in 1..Len(messages) |-> BufferLine(messages[i])], <<NL>>)]

\* ConversationBufferMemory.clear()
clear(messages) == << >>

(* ------------------------------ ChatbotMemory -------------------------- *)
\* ChatbotMemory.__init__
NewChatbotMemory(k) ==
    [memory_k |-> k,
     short_term_memory |-> << >>,
     conversation_count |-> 0,
     last_interaction_time |-> << >>]

MemoryText(human_input, ai_response) ==
    <<"Human: ">> \o human_input \o <<NL, "Ai: ">> \o ai_response

\* the call add_to_memory makes on the vector store
AddTextsCall(memory_text, metadata) ==
    [args |-> << >>,
     kwargs |-> [texts |-> <<memory_text>>, metadata |-> <<metadata>>]]

\* variant: the counter is incremented a second time when the metadata is built
add_to_memory_double_count(self, store, now, human_input, ai_response, write_fails) ==
    LET count == self.conversation_count + 2
        metadata == [timestamp |-> Isoformat(now), conversation_id |-> count]
        call == AddTextsCall(MemoryText(human_input, ai_response), metadata)
    IN [self |-> [self EXCEPT
                    !.conversation_count = count,
                    !.last_interaction_time = <<now>>,
                    !.short_term_memory = save_context(@, human_input, ai_response)],
        vector_store |-> IF write_fails THEN store ELSE Chroma_add_texts(store, call),
        metadata |-> metadata,
        call |-> call,
        raised |-> write_fails]

\* variant: the metadata is built before the counter is incremented
add_to_memory_stale_id(self, store, now, human_input, ai_response, write_fails) ==
    LET count == self.conversation_count + 1
        metadata == [timestamp |-> Isoformat(now),
                     conversation_id |-> self.conversation_count]
        call == AddTextsCall(MemoryText(human_input, ai_response), metadata)
    IN [self |-> [self EXCEPT
                    !.conversation_count = count,
                    !.last_interaction_time = <<now>>,
                    !.short_term_memory = save_context(@, human_input, ai_response)],
        vector_store |-> IF write_fails THEN store ELSE Chroma_add_texts(store, call),
        metadata |-> metadata,
        call |-> call,
        raised |-> write_fails]

\* variant: a failed store write restores the counter and the transcript
add_to_memory_rollback(self, store, now, human_input, ai_response, write_fails) ==
    LET count == self.conversation_count + 1
        metadata == [timestamp |-> Isoformat(now), conversation_id |-> count]
        call == AddTextsCall(MemoryText(human_input, ai_response), metadata)
    IN [self |-> IF write_fails THEN self
                 ELSE [self EXCEPT
                         !.conversation_count = count,
                         !.last_interaction_time = <<now>>,
                         !.short_term_memory = save_context(@, human_input, ai_response)],
        vector_store |-> IF write_fails THEN store ELSE Chroma_add_texts(store, call),
        metadata |-> metadata,
        call |-> call,
        raised |-> write_fails]

\* ChatbotMemory.add_to_memory; write_fails: vector_store.add_texts raises.
\* The result holds the object and the store as the call leaves them.
add_to_memory(self, store, now, human_input, ai_response, write_fails) ==
    LET count == self.conversation_count + 1
        metadata == [timestamp |-> Isoformat(now), conversation_id |-> count]
        call == AddTextsCall(MemoryText(human_input, ai_response), metadata)
    IN [self |-> [self EXCEPT
                    !.conversation_count = count,
                    !.last_interaction_time = <<now>>,
                    !.short_term_memory = save_context(@, human_input, ai_response)],
        vector_store |-> IF write_fails THEN store ELSE Chroma_add_texts(store, call),
        metadata |-> metadata,
        call |-> call,
        raised |-> write_fails]

\* the call get_relevant_memories makes on the vector store:
\* similarity_search(query, k=self.memory_k)
SearchCall(self, query) ==
    [args |-> <<query>>, kwargs |-> [k |-> self.memory_k]]

\* variant: the search asks for every record, as get_all_memories does
RelevantDocs_unbounded(self, store) == Chroma_similarity_search(store, 1000)

\* the search of ChatbotMemory.get_relevant_memories: the results the vector
\* store can return for similarity_search(query, k=self.memory_k)
RelevantDocs(self, store) == Chroma_similarity_search(store, self.memory_k)

\* the formatting loop of ChatbotMemory.get_relevant_memories over the
\* documents the search returned
FormatMemory(doc) ==
    <<"[", DictGet(doc.metadata, "timestamp", "Unknown time"), "]", NL>>
        \o doc.page_content

get_relevant_memories(docs) ==
    Join([i \in 1..Len(docs) |-> FormatMemory(docs[i])], <<NL, NL>>)

\* ChatbotMemory.get_conversation_history
get_conversation_history(self) == load_memory_variables(self.short_term_memory)

\* variant: only the oldest exchange is dropped
clear_short_term_memory_oldest_only(self) ==
    [self EXCEPT !.short_term_memory =
        IF Len(@) <= 2 THEN << >> ELSE SubSeq(@, 3, Len(@))]

\* ChatbotMemory.clear_short_term_memory
clear_short_term_memory(self) ==
    [self EXCEPT !.short_term_memory = clear(@)]

(* ------------------------------ EnhancedChatbot ------------------------ *)
\* EnhancedChatbot.format_conversation_history
format_conversation_history(history) == DictGet(history, "history", << >>)

\* PromptTemplate.format over the template of _create_prompt_template
PromptFormat(relevant_memories, recent_history, input) ==
    <<"You are a helpful AI assistant with memory of past converstaions.", NL,
      "        ", NL,
      "        Relevant past conversations:", NL,
      "        ">> \o relevant_memories
    \o <<NL, NL,
         "        Recent conversation:", NL,
         "        ">> \o recent_history
    \o <<NL, NL,
         "        Human: ">> \o input
    \o <<NL, "        AI Assistant:", NL, "        ">>

FallbackText == <<"I'm sorry, I encountered an error. Please try again.">>

\* the steps of generate_response's try block that can raise
Faults == {"recall", "prompt", "llm", "remember"}

\* str(e) of the exception a failing step raises
ErrorText(fault) ==
    CASE fault = "recall" -> <<"similarity_search failed">>
      [] fault = "prompt" -> <<"prompt format failed">>
      [] fault = "llm" -> <<"predict failed">>
      [] OTHER -> <<"add_texts failed">>

\* variant: the handler catches only the model's errors
Caught_model_errors_only(fault) == fault = "llm"

\* "except Exception": the handler catches whatever a step raises
Caught(fault) == TRUE

\* the except clause of generate_response
ExceptHandler(fault) ==
    [response |-> FallbackText, error |-> ErrorText(fault), success |-> FALSE]

\* variant: the exchange is written to memory before the model is invoked
StepsEntered_remember_first(fault) ==
    CASE fault = "recall" -> <<"recall">>
      [] fault = "prompt" -> <<"recall", "history", "prompt">>
      [] fault = "remember" -> <<"recall", "history", "prompt", "remember">>
      [] OTHER -> <<"recall", "history", "prompt", "remember", "llm">>

\* the statements of generate_response's try block, in order, up to and
\* including the one that raises
StepsEntered(fault) ==
    CASE fault = "recall" -> <<"recall">>
      [] fault = "prompt" -> <<"recall", "history", "prompt">>
      [] fault = "llm" -> <<"recall", "history", "prompt", "llm">>
      [] OTHER -> <<"recall", "history", "prompt", "llm", "remember">>

\* variant: the recent history is read after the exchange has been remembered
generate_response_late_history(self, store, now, user_input, docs, response, fault) ==
    LET relevant_memories == get_relevant_memories(docs)
        added == add_to_memory(self, store, now, user_input, response,
                               fault = "remember")
        recent_history ==
            format_conversation_history(get_conversation_history(added.self))
        prompt == PromptFormat(relevant_memories, recent_history, user_input)
        entered == StepsEntered(fault)
        reached_llm == \E i \in 1..Len(entered) : entered[i] = "llm"
        reached_remember == \E i \in 1..Len(entered) : entered[i] = "remember"
    IN [self |-> IF reached_remember THEN added.self ELSE self,
        vector_store |-> IF reached_remember THEN added.vector_store ELSE store,
        prompts |-> IF reached_llm THEN <<prompt>> ELSE << >>,
        adds |-> IF reached_remember THEN <<added>> ELSE << >>,
        trace |-> entered,
        raised |-> fault # "none" /\ ~Caught(fault),
        ret |-> IF fault = "none"
                THEN [response |-> response,
                      relevant_memories |-> relevant_memories,
                      success |-> TRUE]
                ELSE IF Caught(fault) THEN ExceptHandler(fault)
                ELSE [uncaught |-> ErrorText(fault)]]

\* EnhancedChatbot.generate_response on the coordinator self.  docs is what
\* the similarity search returns, response what the model returns, fault the
\* step that raises ("none": no step does).  trace lists the steps entered,
\* prompts the prompts sent to the model, adds the add_to_memory calls made.
generate_response(self, store, now, user_input, docs, response, fault) ==
    LET relevant_memories == get_relevant_memories(docs)
        recent_history == format_conversation_history(get_conversation_history(self))
        prompt == PromptFormat(relevant_memories, recent_history, user_input)
        added == add_to_memory(self, store, now, user_input, response,
                               fault = "remember")
        entered == StepsEntered(fault)
        reached_llm == \E i \in 1..Len(entered) : entered[i] = "llm"
        reached_remember == \E i \in 1..Len(entered) : entered[i] = "remember"
    IN [self |-> IF reached_remember THEN added.self ELSE self,
        vector_store |-> IF reached_remember THEN added.vector_store ELSE store,
        prompts |-> IF reached_llm THEN <<prompt>> ELSE << >>,
        adds |-> IF reached_remember THEN <<added>> ELSE << >>,
        trace |-> entered,
        raised |-> fault # "none" /\ ~Caught(fault),
        ret |-> IF fault = "none"
                THEN [response |-> response,
                      relevant_memories |-> relevant_memories,
                      success |-> TRUE]
                ELSE IF Caught(fault) THEN ExceptHandler(fault)
                ELSE [uncaught |-> ErrorText(fault)]]

\* a bound method object, as the expression self.memory.get_conversation_history
\* (no call) evaluates to
BoundMethod(name) == [im_func |-> name]

\* hasattr(v, "get"): a dict has the attribute, a method object has not
HasGet(v) == "im_func" \notin DOMAIN v

\* EnhancedChatbot.get_conversation_history: format_conversation_history is
\* handed the bound method self.memory.get_conversation_history itself, and
\* its history.get(...) raises AttributeError on a value without .get
chatbot_get_conversation_history(self) ==
    LET history == BoundMethod("get_conversation_history")
    IN IF HasGet(history)
       THEN [raised |-> FALSE, ret |-> format_conversation_history(history)]
       ELSE [raised |-> TRUE, error |-> <<"AttributeError">>]

(* ------------------------------- state --------------------------------- *)
VARIABLES
    memory,        \* live session -> its ChatbotMemory object
    vector_store,  \* the documents of the Chroma collection all sessions share
    clock,         \* datetime.now()
    add_calls,     \* history: every add_to_memory invocation so far, in order
    clear_mark,    \* history: session -> Len(add_calls) at its last clear
    last,          \* the operation just performed and its outcome
    threads        \* thread -> its position and locals inside add_to_memory

vars == <<memory, vector_store, clock, add_calls, clear_mark, last, threads>>

\* the history entry of one add_to_memory invocation
AddRecord(s, human_input, ai_response, added) ==
    [session |-> s, human_input |-> human_input, ai_response |-> ai_response,
     metadata |-> added.metadata, call |-> added.call, raised |-> added.raised]

Init ==
    /\ \E k \in MemoryKs : memory = [s \in AppSessions |-> NewChatbotMemory(k)]
    /\ vector_store = << >>
    /\ clock = 1
    /\ add_calls = << >>
    /\ clear_mark = [s \in AppSessions |-> 0]
    /\ last = [op |-> "init"]
    /\ threads = << >>

(* ------------------------------ operations ----------------------------- *)
\* a direct call of ChatbotMemory.add_to_memory
AddToMemory(s) ==
    /\ Len(add_calls) < MaxCalls
    /\ \E x \in Exchanges, write_fails \in BOOLEAN :
         LET human_input == x[1]
             ai_response == x[2]
             added == add_to_memory(memory[s], vector_store, clock,
                                    human_input, ai_response, write_fails)
         IN /\ memory' = [memory EXCEPT ![s] = added.self]
            /\ vector_store' = added.vector_store
            /\ clock' = clock + 1
            /\ add_calls' = Append(add_calls,
                                   AddRecord(s, human_input, ai_response, added))
            /\ last' = [op |-> "add_to_memory", session |-> s,
                        raised |-> added.raised]
    /\ UNCHANGED clear_mark

\* variant: a recall counts as an interaction and stamps last_interaction_time
GetRelevantMemories_stamping(s) ==
    /\ \E query \in Humans :
         \/ \E docs \in RelevantDocs(memory[s], vector_store) :
              last' = [op |-> "get_relevant_memories", session |-> s,
                       raised |-> FALSE, query |-> query, docs |-> docs,
                       searches |-> <<SearchCall(memory[s], query)>>,
                       ret |-> get_relevant_memories(docs)]
         \/ last' = [op |-> "get_relevant_memories", session |-> s,
                     raised |-> TRUE, query |-> query,
                     searches |-> <<SearchCall(memory[s], query)>>]
    /\ memory' = [memory EXCEPT ![s].last_interaction_time = <<clock>>]
    /\ UNCHANGED <<vector_store, clock, add_calls, clear_mark>>

\* a direct call of ChatbotMemory.get_relevant_memories
GetRelevantMemories(s) ==
    /\ \E query \in Humans :
         \/ \E docs \in RelevantDocs(memory[s], vector_store) :
              last' = [op |-> "get_relevant_memories", session |-> s,
                       raised |-> FALSE, query |-> query, docs |-> docs,
                       searches |-> <<SearchCall(memory[s], query)>>,
                       ret |-> get_relevant_memories(docs)]
         \/ last' = [op |-> "get_relevant_memories", session |-> s,
                     raised |-> TRUE, query |-> query,
                     searches |-> <<SearchCall(memory[s], query)>>]
    /\ UNCHANGED <<memory, vector_store, clock, add_calls, clear_mark>>

\* a direct call of ChatbotMemory.get_conversation_history
GetConversationHistory(s) ==
    /\ last' = [op |-> "get_conversation_history", session |-> s,
                raised |-> FALSE, ret |-> get_conversation_history(memory[s])]
    /\ UNCHANGED <<memory, vector_store, clock, add_calls, clear_mark>>

\* a direct call of ChatbotMemory.clear_short_term_memory
ClearShortTermMemory(s) ==
    /\ memory' = [memory EXCEPT ![s] = clear_short_term_memory(@)]
    /\ clear_mark' = [clear_mark EXCEPT ![s] = Len(add_calls)]
    /\ last' = [op |-> "clear_short_term_memory", session |-> s, raised |-> FALSE]
    /\ UNCHANGED <<vector_store, clock, add_calls>>

\* variant: the transcript is one object all sessions hold, so a clear
\* empties every session's transcript
ClearMemory_all_sessions(s) ==
    /\ memory' = [t \in DOMAIN memory |-> clear_short_term_memory(memory[t])]
    /\ clear_mark' = [clear_mark EXCEPT ![s] = Len(add_calls)]
    /\ last' = [op |-> "clear_memory", session |-> s, raised |-> FALSE]
    /\ UNCHANGED <<vector_store, clock, add_calls>>

\* EnhancedChatbot.clear_memory
ClearMemory(s) ==
    /\ memory' = [memory EXCEPT ![s] = clear_short_term_memory(@)]
    /\ clear_mark' = [clear_mark EXCEPT ![s] = Len(add_calls)]
    /\ last' = [op |-> "clear_memory", session |-> s, raised |-> FALSE]
    /\ UNCHANGED <<vector_store, clock, add_calls>>

\* EnhancedChatbot.generate_response
GenerateResponse(s) ==
    \E x \in Exchanges, fault \in Faults \cup {"none"} :
      LET user_input == x[1]
          response == x[2]
      IN
      /\ fault \in {"none", "remember"} => Len(add_calls) < MaxCalls
      /\ \E docs \in RelevantDocs(memory[s], vector_store) :
           LET out == generate_response(memory[s], vector_store, clock,
                                        user_input, docs, response, fault)
           IN /\ memory' = [memory EXCEPT ![s] = out.self]
              /\ vector_store' = out.vector_store
              /\ clock' = clock + Len(out.adds)
              /\ add_calls' = add_calls \o
                   [i \in 1..Len(out.adds) |->
                      AddRecord(s, user_input, response, out.adds[i])]
              /\ last' = [op |-> "generate_response", session |-> s,
                          raised |-> out.raised, user_input |-> user_input,
                          fault |-> fault,
                          ret |-> out.ret, trace |-> out.trace,
                          prompts |-> out.prompts]
      /\ UNCHANGED clear_mark

\* EnhancedChatbot.get_conversation_history
ChatbotGetConversationHistory(s) ==
    /\ last' = [op |-> "chatbot_get_conversation_history", session |-> s]
                   @@ chatbot_get_conversation_history(memory[s])
    /\ UNCHANGED <<memory, vector_store, clock, add_calls, clear_mark>>

\* the calls of the single-threaded program; no thread is inside add_to_memory
Next ==
    /\ \E s \in DOMAIN memory :
        \/ AddToMemory(s)
        \/ GetRelevantMemories(s)
        \/ GetConversationHistory(s)
        \/ ClearShortTermMemory(s)
        \/ ClearMemory(s)
        \/ GenerateResponse(s)
        \/ ChatbotGetConversationHistory(s)
    /\ UNCHANGED threads

Spec == Init /\ [][Next]_vars

(* ------------- two sessions on one Chroma collection ------------------- *)
\* two EnhancedChatbot objects built from the same configuration: each
\* _setup_components makes its own ChatbotMemory, and both open the
\* collection "conversation_memory" of the same persist directory
SharedSessions == {1, 2}

\* ChatbotConfig.memory_k as app.py's configuration leaves it
DefaultMemoryK == 3

InitShared ==
    /\ memory = [s \in SharedSessions |-> NewChatbotMemory(DefaultMemoryK)]
    /\ vector_store = << >>
    /\ clock = 1
    /\ add_calls = << >>
    /\ clear_mark = [s \in SharedSessions |-> 0]
    /\ last = [op |-> "init"]
    /\ threads = << >>

\* the sessions' generate_response and clear_memory calls, interleaved
NextShared ==
    /\ \E s \in DOMAIN memory :
        \/ GenerateResponse(s)
        \/ ClearMemory(s)
    /\ UNCHANGED threads

SpecShared == InitShared /\ [][NextShared]_vars

(* ------- two threads inside add_to_memory of one ChatbotMemory --------- *)
\* the threads, each making one add_to_memory call on session 1's coordinator
RaceThreads == {1, 2}

\* a thread about to enter add_to_memory(x[1], x[2])
NewThread(x) ==
    [pc |-> "count", session |-> 1, human_input |-> x[1], ai_response |-> x[2],
     metadata |-> EmptyDict, memory_text |-> << >>]

InitRace ==
    /\ memory = [s \in AppSessions |-> NewChatbotMemory(DefaultMemoryK)]
    /\ vector_store = << >>
    /\ clock = 1
    /\ add_calls = << >>
    /\ clear_mark = [s \in AppSessions |-> 0]
    /\ last = [op |-> "init"]
    /\ threads \in [RaceThreads -> { NewThread(x) : x \in Exchanges }]

\* variant: the id is taken one below the counter
BuildMetadata_zero_based(self) ==
    [timestamp |-> Isoformat(self.last_interaction_time[1]),
     conversation_id |-> self.conversation_count - 1]

\* the metadata dict of add_to_memory, read from the object's attributes
BuildMetadata(self) ==
    [timestamp |-> Isoformat(self.last_interaction_time[1]),
     conversation_id |-> self.conversation_count]

\* self.conversation_count += 1
StmtCount(t) ==
    /\ threads[t].pc = "count"
    /\ memory' = [memory EXCEPT ![threads[t].session].conversation_count = @ + 1]
    /\ threads' = [threads EXCEPT ![t].pc = "time"]
    /\ last' = [op |-> "statement", thread |-> t, line |-> 31]
    /\ UNCHANGED <<vector_store, clock, add_calls, clear_mark>>

\* self.last_interaction_time = datetime.now()
StmtTime(t) ==
    /\ threads[t].pc = "time"
    /\ memory' = [memory EXCEPT
                    ![threads[t].session].last_interaction_time = <<clock>>]
    /\ clock' = clock + 1
    /\ threads' = [threads EXCEPT ![t].pc = "metadata"]
    /\ last' = [op |-> "statement", thread |-> t, line |-> 32]
    /\ UNCHANGED <<vector_store, add_calls, clear_mark>>

\* metadata = {...}
StmtMetadata(t) ==
    /\ threads[t].pc = "metadata"
    /\ threads' = [threads EXCEPT
                     ![t].metadata = BuildMetadata(memory[threads[t].session]),
                     ![t].pc = "save"]
    /\ last' = [op |-> "statement", thread |-> t, line |-> 33]
    /\ UNCHANGED <<memory, vector_store, clock, add_calls, clear_mark>>

\* self.short_term_memory.save_context(...)
StmtSave(t) ==
    /\ threads[t].pc = "save"
    /\ memory' = [memory EXCEPT ![threads[t].session].short_term_memory =
                     save_context(@, threads[t].human_input, threads[t].ai_response)]
    /\ threads' = [threads EXCEPT ![t].pc = "text"]
    /\ last' = [op |-> "statement", thread |-> t, line |-> 39]
    /\ UNCHANGED <<vector_store, clock, add_calls, clear_mark>>

\* memory_text = f"Human: ...\nAi: ..."
StmtText(t) ==
    /\ threads[t].pc = "text"
    /\ threads' = [threads EXCEPT
                     ![t].memory_text = MemoryText(threads[t].human_input,
                                                  threads[t].ai_response),
                     ![t].pc = "write"]
    /\ last' = [op |-> "statement", thread |-> t, line |-> 45]
    /\ UNCHANGED <<memory, vector_store, clock, add_calls, clear_mark>>

\* self.vector_store.add_texts(...), which returns or raises; the call ends
StmtWrite(t) ==
    /\ threads[t].pc = "write"
    /\ \E write_fails \in BOOLEAN :
         LET call == AddTextsCall(threads[t].memory_text, threads[t].metadata)
         IN /\ vector_store' = IF write_fails THEN vector_store
                               ELSE Chroma_add_texts(vector_store, call)
            /\ add_calls' = Append(add_calls,
                   [session |-> threads[t].session,
                    human_input |-> threads[t].human_input,
                    ai_response |-> threads[t].ai_response,
                    metadata |-> threads[t].metadata,
                    call |-> call, raised |-> write_fails])
            /\ last' = [op |-> "statement", thread |-> t, line |-> 47,
                        raised |-> write_fails]
    /\ threads' = [threads EXCEPT ![t].pc = "done"]
    /\ UNCHANGED <<memory, clock, clear_mark>>

\* one thread runs its next statement; no lock orders the two calls
NextRace ==
    \E t \in DOMAIN threads :
        \/ StmtCount(t)
        \/ StmtTime(t)
        \/ StmtMetadata(t)
        \/ StmtSave(t)
        \/ StmtText(t)
        \/ StmtWrite(t)

SpecRace == InitRace /\ [][NextRace]_vars

(* ------------------------------ history views -------------------------- *)
\* the add_to_memory invocations of session s, in call order
CallsOf(s) == SelectSeq(add_calls, LAMBDA c : c.session = s)

\* those made since the session's last clear
CallsSince(s) ==
    SelectSeq(SubSeq(add_calls, clear_mark[s] + 1, Len(add_calls)),
              LAMBDA c : c.session = s)

\* the invocations whose store write did not raise
Written == SelectSeq(add_calls, LAMBDA c : ~c.raised)

\* the text of one exchange as the long-term tier is to hold it
ExchangeText(c) == <<"Human: ">> \o c.human_input \o <<NL, "Ai: ">> \o c.ai_response

\* the transcript messages a sequence of invocations leaves
RECURSIVE ExpectedMessages(_)
ExpectedMessages(calls) ==
    IF calls = << >> THEN << >>
    ELSE << [type |-> "human", content |-> calls[1].human_input],
            [type |-> "ai", content |-> calls[1].ai_response] >>
         \o ExpectedMessages(Tail(calls))

(* -------------------------------- C1 ----------------------------------- *)
\* C1 (as stated): every add_to_memory call has incremented
\* conversation_count once, appended one exchange to the transcript and one
\* record to the semantic store, so neither tier ever holds an exchange the
\* other lacks: the store has one record per call and holds the record of
\* every exchange in the transcript.
C1_EveryCallWritesBothTiers ==
    /\ \A s \in DOMAIN memory :
         /\ memory[s].conversation_count = Len(CallsOf(s))
         /\ Len(memory[s].short_term_memory) = 2 * Len(CallsSince(s))
         /\ \A i \in 1..Len(CallsSince(s)) :
              \E j \in 1..Len(vector_store) :
                  vector_store[j].page_content = ExchangeText(CallsSince(s)[i])
    /\ Len(vector_store) = Len(add_calls)

\* C1 (amended): every add_to_memory call increments conversation_count once
\* and appends one exchange (user turn, then assistant turn) to the
\* transcript; it appends one record to the semantic store exactly when the
\* store write does not raise.  So the counter equals the number of calls,
\* the transcript holds the exchanges of the calls since the last clear, and
\* the store holds one record per call whose write succeeded, in call order.
C1_CallsUpdateCounterTranscriptAndWrittenStore ==
    /\ \A s \in DOMAIN memory :
         /\ memory[s].conversation_count = Len(CallsOf(s))
         /\ memory[s].short_term_memory = ExpectedMessages(CallsSince(s))
    /\ Len(vector_store) = Len(Written)
    /\ \A i \in 1..Len(Written) :
         vector_store[i].page_content = ExchangeText(Written[i])

\* a call whose store write raised and a later call whose write succeeded
C1_Witness ==
    /\ Len(add_calls) = 2
    /\ add_calls[1].raised /\ ~add_calls[2].raised
    /\ Len(vector_store) = 1
    /\ \E s \in DOMAIN memory : Len(memory[s].short_term_memory) = 4

(* -------------------------------- C2 ----------------------------------- *)
\* C2: after N add_to_memory calls on a coordinator that was never cleared
\* after a call, the rendered history has exactly N user lines and N
\* assistant lines, in call order, each exchange's user line directly before
\* its assistant line.
C2_HistoryHasOneLinePairPerCall ==
    \A s \in DOMAIN memory :
        clear_mark[s] = 0 =>
            LET calls == CallsOf(s)
                lines == Lines(get_conversation_history(memory[s]).history)
                users == SelectSeq(lines, LAMBDA l : l # << >> /\ l[1] = "Human: ")
                assistants == SelectSeq(lines, LAMBDA l : l # << >> /\ l[1] = "AI: ")
            IN /\ Len(users) = Len(calls)
               /\ Len(assistants) = Len(calls)
               /\ Len(lines) = 2 * Len(calls)
               /\ \A i \in 1..Len(calls) :
                    /\ lines[2 * i - 1] = <<"Human: ">> \o calls[i].human_input
                    /\ lines[2 * i] = <<"AI: ">> \o calls[i].ai_response

\* two calls with different exchanges on a never-cleared coordinator
C2_Witness ==
    \E s \in DOMAIN memory :
        /\ clear_mark[s] = 0
        /\ Len(CallsOf(s)) = 2
        /\ CallsOf(s)[1].human_input # CallsOf(s)[2].human_input
        /\ Len(Lines(get_conversation_history(memory[s]).history)) = 4

(* -------------------------------- C3 ----------------------------------- *)
\* the operation just performed returned a recall result
RecallReturned ==
    \/ last.op = "get_relevant_memories" /\ ~last.raised
    \/ last.op = "generate_response" /\ last.fault = "none"

RecallResult ==
    IF last.op = "get_relevant_memories" THEN last.ret
    ELSE last.ret.relevant_memories

\* the invocations made before that recall ran
CallsBeforeRecall ==
    IF last.op = "generate_response"
    THEN SubSeq(add_calls, 1, Len(add_calls) - 1)
    ELSE add_calls

\* C3: a recall returns at most memory_k entries, and every entry is the
\* bracketed timestamp line followed by the stored text of a record that an
\* earlier add_to_memory call wrote.
C3_RecallBoundedAndDrawnFromWrittenRecords ==
    RecallReturned =>
        LET entries == Entries(RecallResult)
        IN /\ Len(entries) <= memory[last.session].memory_k
           /\ \A i \in 1..Len(entries) :
                \E j \in 1..Len(CallsBeforeRecall) :
                    /\ ~CallsBeforeRecall[j].raised
                    /\ Len(entries[i]) > 4
                    /\ SubSeq(entries[i], 5, Len(entries[i]))
                         = ExchangeText(CallsBeforeRecall[j])

\* a recall that returned memory_k entries from a store holding more
C3_Witness ==
    /\ last.op = "get_relevant_memories" /\ ~last.raised
    /\ memory[last.session].memory_k = 1
    /\ Len(vector_store) = 2
    /\ Len(Entries(last.ret)) = 1

(* -------------------------------- C4 ----------------------------------- *)
\* C4: a clear, after any number of add_to_memory calls, does not raise,
\* leaves the recent history the empty string and leaves the semantic store
\* as it was.
C4_ClearEmptiesHistoryAndKeepsStore ==
    [][ last'.op \in {"clear_short_term_memory", "clear_memory"} =>
          /\ ~last'.raised
          /\ format_conversation_history(
                 get_conversation_history(memory'[last'.session])) = << >>
          /\ vector_store' = vector_store ]_vars

\* a clear after two stored exchanges
C4_Witness ==
    /\ last.op = "clear_short_term_memory"
    /\ clear_mark[last.session] = 2
    /\ Len(vector_store) = 2
    /\ memory[last.session].short_term_memory = << >>

(* -------------------------------- C5 ----------------------------------- *)
\* C5: the conversation_id an add_to_memory call builds is 1 on a
\* coordinator's first call and one more than its previous call's on every
\* later call, and it is the new value of conversation_count; a step that
\* makes no add_to_memory call on a coordinator leaves its
\* conversation_count alone.
C5_ConversationIdStepsByOne ==
    [][ \A s \in DOMAIN memory :
          IF /\ Len(add_calls') = Len(add_calls) + 1
             /\ add_calls'[Len(add_calls')].session = s
          THEN LET prev == CallsOf(s)
                   id == add_calls'[Len(add_calls')].metadata.conversation_id
               IN /\ id = IF prev = << >> THEN 1
                          ELSE prev[Len(prev)].metadata.conversation_id + 1
                  /\ memory'[s].conversation_count = id
          ELSE memory'[s].conversation_count = memory[s].conversation_count
      ]_vars

\* a second call, made after a clear, carrying conversation_id 2
C5_Witness ==
    \E s \in DOMAIN memory :
        /\ Len(CallsOf(s)) = 2
        /\ clear_mark[s] = 1
        /\ CallsOf(s)[1].metadata.conversation_id = 1
        /\ CallsOf(s)[2].metadata.conversation_id = 2

(* -------------------------------- C6 ----------------------------------- *)
\* C6: when the model call raises in generate_response, the call returns
\* success false with the fixed fallback text, add_to_memory is not invoked,
\* and the coordinator (transcript, conversation_count) and the semantic
\* store are as they were before the call.
C6_ModelFailureLeavesMemoryUntouched ==
    [][ (last'.op = "generate_response" /\ last'.fault = "llm") =>
          /\ ~last'.raised
          /\ last'.ret.success = FALSE
          /\ last'.ret.response = FallbackText
          /\ \A i \in 1..Len(last'.trace) : last'.trace[i] # "remember"
          /\ add_calls' = add_calls
          /\ memory' = memory
          /\ vector_store' = vector_store ]_vars

\* a failing model call on a coordinator that already holds an exchange
C6_Witness ==
    /\ last.op = "generate_response" /\ last.fault = "llm"
    /\ Len(last.prompts) = 1
    /\ memory[last.session].conversation_count = 1
    /\ Len(memory[last.session].short_term_memory) = 2

(* -------------------------------- C7 ----------------------------------- *)
\* C7: generate_response does not raise to its caller: when a step (recall,
\* prompt rendering, model call, remember) fails it returns the fixed
\* fallback with success false and the failure's text; it returns success
\* true exactly when no step failed, having run all five steps; no step is
\* entered twice and the model is sent at most one prompt.
C7_GenerateResponseIsTheRecoveryBoundary ==
    last.op = "generate_response" =>
        /\ ~last.raised
        /\ last.fault \in Faults =>
              last.ret = [response |-> FallbackText,
                          error |-> ErrorText(last.fault),
                          success |-> FALSE]
        /\ last.ret.success <=> last.fault = "none"
        /\ last.ret.success =>
              last.trace = <<"recall", "history", "prompt", "llm", "remember">>
        /\ \A i, j \in 1..Len(last.trace) :
              i # j => last.trace[i] # last.trace[j]
        /\ Len(last.prompts) <= 1

\* a generate_response whose remember step failed after the model answered
C7_Witness ==
    /\ last.op = "generate_response" /\ last.fault = "remember"
    /\ ~last.ret.success
    /\ last.ret.error = <<"add_texts failed">>
    /\ Len(last.prompts) = 1

(* -------------------------------- C8 ----------------------------------- *)
\* C8: when the store write fails inside add_to_memory nothing is rolled
\* back: conversation_count is one higher and the transcript ends with the
\* new exchange while the store is as before; a direct caller sees the
\* failure raised, and generate_response, whose model call succeeded,
\* returns the fallback with success false.
C8_FailedStoreWriteIsNotRolledBack ==
    [][ ( /\ Len(add_calls') = Len(add_calls) + 1
          /\ add_calls'[Len(add_calls')].raised ) =>
          LET new == add_calls'[Len(add_calls')]
              s == new.session
          IN /\ memory'[s].conversation_count = memory[s].conversation_count + 1
             /\ memory'[s].short_term_memory =
                    memory[s].short_term_memory
                      \o << [type |-> "human", content |-> new.human_input],
                            [type |-> "ai", content |-> new.ai_response] >>
             /\ vector_store' = vector_store
             /\ last'.op = "add_to_memory" => last'.raised
             /\ last'.op = "generate_response" =>
                   /\ ~last'.raised
                   /\ last'.ret.success = FALSE
                   /\ last'.ret.response = FallbackText
                   /\ Len(last'.prompts) = 1
                   /\ \E i \in 1..Len(last'.trace) : last'.trace[i] = "llm"
      ]_vars

\* generate_response after a failed store write: the transcript and the
\* counter hold an exchange for which the store has no record
C8_Witness ==
    /\ last.op = "generate_response" /\ last.fault = "remember"
    /\ Len(add_calls) = 1 /\ add_calls[1].raised
    /\ memory[last.session].conversation_count = 1
    /\ Len(memory[last.session].short_term_memory) = 2
    /\ vector_store = << >>

(* -------------------------------- C9 ----------------------------------- *)
\* C9: after a single add_to_memory(u, a) on an empty store, a recall with
\* a positive fan-out returns exactly one entry, which contains the text
\* "Human: u\nAi: a" and the timestamp add_to_memory built for the record.
C9_RoundTripReturnsTextAndBuiltTimestamp ==
    ( /\ Len(add_calls) = 1 /\ ~add_calls[1].raised
      /\ last.op = "get_relevant_memories" /\ ~last.raised
      /\ memory[last.session].memory_k >= 1 ) =>
        /\ Len(Entries(last.ret)) = 1
        /\ Contains(last.ret, ExchangeText(add_calls[1]))
        /\ Contains(last.ret, <<add_calls[1].metadata.timestamp>>)

(* -------------------------------- C10 ---------------------------------- *)
\* C10: the add_texts call of every add_to_memory(h, a) has as its first
\* positional argument the one-element list holding "Human: h\nAI: a".
C10_AddTextsFirstPositionalIsTheExchange ==
    \A i \in 1..Len(add_calls) :
        /\ Len(add_calls[i].call.args) >= 1
        /\ add_calls[i].call.args[1] =
             << <<"Human: ">> \o add_calls[i].human_input
                  \o <<NL, "AI: ">> \o add_calls[i].ai_response >>

(* -------------------------------- C11 ---------------------------------- *)
\* C11: get_relevant_memories(q) makes exactly one similarity search, with
\* the query q and k = memory_k, and when the search returns a single
\* document without timestamp metadata the result is exactly that
\* document's text.
C11_OneSearchAndBareTextForUntimedDocument ==
    last.op = "get_relevant_memories" =>
        /\ last.searches =
              << [args |-> <<last.query>>,
                  kwargs |-> [k |-> memory[last.session].memory_k]] >>
        /\ ( /\ ~last.raised
             /\ Len(last.docs) = 1
             /\ "timestamp" \notin DOMAIN last.docs[1].metadata ) =>
                last.ret = last.docs[1].page_content

(* -------------------------------- C12 ---------------------------------- *)
\* C12: a successful generate_response runs recall, history, prompt, model
\* call, remember in that order; the one prompt sent to the model is the
\* template filled with the recall result, the transcript as it was before
\* the call and the user input; add_to_memory is called once, with the user
\* input and the model's output; and the returned relevant_memories has
\* only entries of records the store held before the call.
C12_SuccessPathOrderPromptAndRecall ==
    [][ (last'.op = "generate_response" /\ last'.fault = "none") =>
          LET s == last'.session
              before == format_conversation_history(
                            get_conversation_history(memory[s]))
              recalled == last'.ret.relevant_memories
              entries == Entries(recalled)
              new == add_calls'[Len(add_calls')]
          IN /\ last'.trace = <<"recall", "history", "prompt", "llm", "remember">>
             /\ last'.prompts = <<PromptFormat(recalled, before, last'.user_input)>>
             /\ Len(add_calls') = Len(add_calls) + 1
             /\ new.session = s
             /\ new.human_input = last'.user_input
             /\ new.ai_response = last'.ret.response
             /\ Len(entries) <= Len(vector_store)
             /\ \A i \in 1..Len(entries) :
                  \E j \in 1..Len(vector_store) :
                      /\ Len(entries[i]) > 4
                      /\ SubSeq(entries[i], 5, Len(entries[i]))
                           = vector_store[j].page_content
      ]_vars

\* a successful second exchange whose prompt carried one recalled record and
\* the first exchange as recent history
C12_Witness ==
    /\ last.op = "generate_response" /\ last.fault = "none"
    /\ Len(add_calls) = 2 /\ ~add_calls[1].raised
    /\ clear_mark[last.session] = 0
    /\ Len(Entries(last.ret.relevant_memories)) = 1
    /\ Contains(last.prompts[1], <<"AI: ">> \o add_calls[1].ai_response)
    /\ ~Contains(last.prompts[1], <<"AI: ">> \o add_calls[2].ai_response)

(* -------------------------------- C13 ---------------------------------- *)
\* C13: get_relevant_memories, whether it returns records, returns none or
\* raises, leaves the coordinator's transcript, conversation_count and
\* last_interaction_time and the records of the semantic store as they were.
C13_RecallLeavesStateUnchanged ==
    [][ last'.op = "get_relevant_memories" =>
          LET s == last'.session
          IN /\ memory'[s].short_term_memory = memory[s].short_term_memory
             /\ memory'[s].conversation_count = memory[s].conversation_count
             /\ memory'[s].last_interaction_time = memory[s].last_interaction_time
             /\ vector_store' = vector_store
      ]_vars

\* a recall that returned a record, on a coordinator holding an exchange
C13_Witness ==
    /\ last.op = "get_relevant_memories" /\ ~last.raised
    /\ Len(last.docs) = 1
    /\ Len(memory[last.session].short_term_memory) = 2
    /\ memory[last.session].conversation_count = 1
    /\ memory[last.session].last_interaction_time # << >>
    /\ Len(vector_store) = 1

(* -------------------------------- C14 ---------------------------------- *)
\* C14: the string get_relevant_memories returns has one entry per record
\* the search returned, in rank order, each entry containing that record's
\* text and the timestamp the record was written with; it is the empty
\* string when the search returned no record.
C14_OneEntryPerRecordWithTimestampAndText ==
    (last.op = "get_relevant_memories" /\ ~last.raised) =>
        LET entries == Entries(last.ret)
        IN /\ Len(entries) = Len(last.docs)
           /\ last.docs = << >> => last.ret = << >>
           /\ \A i \in 1..Len(entries) :
                /\ Contains(entries[i], last.docs[i].page_content)
                /\ \E j \in 1..Len(Written) :
                     /\ ExchangeText(Written[j]) = last.docs[i].page_content
                     /\ Contains(entries[i], <<Written[j].metadata.timestamp>>)

(* -------------------------------- C15 ---------------------------------- *)
\* C15: with memory_k zero or negative, get_relevant_memories passes no
\* non-positive k to the index and returns the empty string without raising.
C15_NonPositiveFanOutIsNotPassedThrough ==
    ( /\ last.op = "get_relevant_memories"
      /\ memory[last.session].memory_k <= 0 ) =>
        /\ \A i \in 1..Len(last.searches) : last.searches[i].kwargs.k > 0
        /\ ~last.raised
        /\ last.ret = << >>

(* -------------------------------- C18 ---------------------------------- *)
\* C18: EnhancedChatbot.get_conversation_history returns, without raising,
\* the formatted transcript that generate_response uses as recent history.
C18_ChatbotHistoryIsTheFormattedTranscript ==
    last.op = "chatbot_get_conversation_history" =>
        /\ ~last.raised
        /\ last.ret = format_conversation_history(
                          get_conversation_history(memory[last.session]))

(* -------------------------------- C16 ---------------------------------- *)
\* C16: with two sessions on one semantic store, a generate_response or
\* clear_memory call of one session leaves the other session's transcript
\* and conversation_count as they were; the store is the only thing shared
\* (the witness is a recall of one session returning the other's record).
C16_SessionsShareOnlyTheStore ==
    [][ \A s \in DOMAIN memory :
          s # last'.session =>
              /\ memory'[s].short_term_memory = memory[s].short_term_memory
              /\ memory'[s].conversation_count = memory[s].conversation_count
      ]_vars

\* session 2's first generate_response recalled the record session 1 wrote,
\* and each session's transcript and counter hold its own exchange only
C16_Witness ==
    /\ DOMAIN memory = {1, 2}
    /\ Len(add_calls) = 2
    /\ add_calls[1].session = 1 /\ ~add_calls[1].raised
    /\ add_calls[2].session = 2
    /\ add_calls[1].human_input # add_calls[2].human_input
    /\ last.op = "generate_response" /\ last.session = 2 /\ last.fault = "none"
    /\ Contains(last.ret.relevant_memories, ExchangeText(add_calls[1]))
    /\ memory[1].conversation_count = 1 /\ memory[2].conversation_count = 1
    /\ memory[1].short_term_memory = ExpectedMessages(<<add_calls[1]>>)
    /\ memory[2].short_term_memory = ExpectedMessages(<<add_calls[2]>>)

(* -------------------------------- C17 ---------------------------------- *)
\* both threads have left add_to_memory
RaceDone == DOMAIN threads # {} /\ \A t \in DOMAIN threads : threads[t].pc = "done"

\* C17 (as stated): when two add_to_memory calls interleave statement by
\* statement, conversation_count ends 2 higher and the two calls build
\* distinct conversation_id values.
C17_InterleavedCallsBuildDistinctIds ==
    RaceDone =>
        /\ memory[1].conversation_count = 2
        /\ \A t, u \in DOMAIN threads :
              t # u => threads[t].metadata.conversation_id
                         # threads[u].metadata.conversation_id

\* C17 (amended): when two add_to_memory calls interleave statement by
\* statement, conversation_count ends 2 higher, every call's conversation_id
\* is 1 or 2 and at least one call's is 2; the two need not be distinct.
C17_InterleavedCallsCountTwiceIdsInRange ==
    RaceDone =>
        /\ memory[1].conversation_count = 2
        /\ \A t \in DOMAIN threads :
              threads[t].metadata.conversation_id \in {1, 2}
        /\ \E t \in DOMAIN threads : threads[t].metadata.conversation_id = 2

\* both calls done, both records carrying conversation_id 2
C17_Witness ==
    /\ RaceDone
    /\ \A t \in DOMAIN threads : threads[t].metadata.conversation_id = 2
    /\ Len(add_calls) = 2
    /\ Len(memory[1].short_term_memory) = 4

====
